---- MODULE Spec2Model ----
(***************************************************************************)
(* Model of homework_bot (src/homework.py): the poll-evaluate-notify loop  *)
(* of main() and the functions it calls.                                   *)
(*                                                                         *)
(* Python values are tagged records ([type |-> ...]); a dict is a record   *)
(* holding a function from its keys to values.  The Russian message texts  *)
(* of the source are written in Latin transliteration, one distinct text   *)
(* per distinct text of the source.                                        *)
(***************************************************************************)
EXTENDS Integers, Sequences, FiniteSets, TLC

VARIABLES
    tokens,       \* <<PRACTICUM_TOKEN, TELEGRAM_TOKEN, TELEGRAM_CHAT_ID>>
    pc,           \* position of main()
    exit_code,    \* status the process ended with, -1 while it runs
    bot,          \* the TeleBot instance of main(), "none" before it is built
    timestamp,    \* local timestamp of main()
    started_at,   \* observation: the value int(time.time()) gave at startup
    last_status,  \* local last_status of main()
    response,     \* local response of main()
    homework,     \* local homework of main()
    status,       \* local status of main()
    error,        \* the exception being handled / propagating, NoError if none
    cur,          \* what the current cycle has done so far (observation)
    prev,         \* summary of the cycle before it (observation)
    delivered     \* observation: summary last delivered and not superseded

vars == <<tokens, pc, exit_code, bot, timestamp, started_at, last_status,
          response, homework, status, error, cur, prev, delivered>>

-----------------------------------------------------------------------------
(* Bounds of the model *)

\* longest homeworks list the API returns
MaxHomeworks == 2

-----------------------------------------------------------------------------
(* Python values *)

None == [type |-> "NoneType"]
Absent == [type |-> "absent"]
PyStr(s) == [type |-> "str", val |-> s]
PyInt(n) == [type |-> "int", val |-> n]
PyList(items) == [type |-> "list", items |-> items]
\* a dict built from a function; keys mapped to Absent are left out
Dict(f) == [type |-> "dict",
            fields |-> [k \in {j \in DOMAIN f : f[j] # Absent} |-> f[k]]]

\* dict.get(key): the value, None when the key is missing
Get(d, key) == IF key \in DOMAIN d.fields THEN d.fields[key] ELSE None

Unset == [type |-> "unset"]

-----------------------------------------------------------------------------
(* Results of calls: a return value or a raised exception, with the log     *)
(* records the call wrote.                                                  *)

NoError == [kind |-> "none", text |-> ""]
Return(v, logs) == [raised |-> FALSE, value |-> v, kind |-> "none",
                    text |-> "", logs |-> logs]
Raise(kind, text, logs) == [raised |-> TRUE, value |-> Unset, kind |-> kind,
                            text |-> text, logs |-> logs]
Log(level, text) == [level |-> level, text |-> text]

-----------------------------------------------------------------------------
(* settings.py and http.HTTPStatus *)

HTTPStatus_OK == 200

HOMEWORK_VERDICTS ==
    [s \in {"approved", "reviewing", "rejected"} |->
        CASE s = "approved"  -> "Rabota proverena: revyueru vsyo ponravilos. Ura!"
          [] s = "reviewing" -> "Rabota vzyata na proverku revyuerom."
          [] s = "rejected"  -> "Rabota proverena: u revyuera est zamechaniya."]

\* HOMEWORK_VERDICTS.get(homework_status)
VerdictGet(st) ==
    IF st.type = "str" /\ st.val \in DOMAIN HOMEWORK_VERDICTS
    THEN PyStr(HOMEWORK_VERDICTS[st.val])
    ELSE None

-----------------------------------------------------------------------------
(* check_tokens *)

\* Python truthiness of a token value (None or a str)
Truthy(v) == v.type = "str" /\ v.val # ""

check_tokens_any(toks) ==
    IF ~(\E i \in DOMAIN toks : Truthy(toks[i]))
    THEN Raise("MissingTokenError", "Oshibka polucheniya tokena", <<>>)
    ELSE Return(None, <<>>)

check_tokens(toks) ==
    IF ~(\A i \in DOMAIN toks : Truthy(toks[i]))
    THEN Raise("MissingTokenError", "Oshibka polucheniya tokena", <<>>)
    ELSE Return(None, <<>>)

-----------------------------------------------------------------------------
(* send_message: outcome is what bot.send_message does *)

NotifierOutcomes ==
    {"ok", "ApiTelegramException", "ConnectionError", "Timeout", "Exception"}

\* text of the exception bot.send_message raised
CauseText(outcome) == "<" \o outcome \o ">"

send_message(outcome, message) ==
    CASE outcome = "ok" ->
            Return(None, <<Log("DEBUG", "Otpravleno soobshchenie \"" \o message \o "\"")>>)
      [] outcome = "ApiTelegramException" ->
            Raise("MessageSendingError",
                  "Oshibka API Telegram: " \o CauseText(outcome), <<>>)
      [] outcome = "ConnectionError" ->
            Raise("MessageSendingError",
                  "Oshibka seti: proverte podklyuchenie k internetu.", <<>>)
      [] outcome = "Timeout" ->
            Raise("MessageSendingError",
                  "Prevysheno vremya ozhidaniya otveta ot servera.", <<>>)
      [] OTHER ->
            Raise("MessageSendingError",
                  "Proizoshla nepredvidennaya oshibka: " \o CauseText(outcome), <<>>)

-----------------------------------------------------------------------------
(* get_api_answer: outcome is what requests.get does *)

TransportFailure == [reached |-> FALSE, status_code |-> 0, body |-> Unset]
HttpResponse(code, body) == [reached |-> TRUE, status_code |-> code, body |-> body]
InvalidJson == [type |-> "invalid_json"]

\* get_api_answer without the test of the status code
get_api_answer_no_status_check(outcome) ==
    IF ~outcome.reached
    THEN Raise("UnboundLocalError",
               "local variable 'response' referenced before assignment",
               <<Log("ERROR", "Oshibka otpravki zaprosa: <RequestException>")>>)
    ELSE IF outcome.body = InvalidJson
    THEN Raise("JSONDecodeError", "Expecting value", <<>>)
    ELSE Return(outcome.body, <<>>)

get_api_answer(outcome) ==
    IF ~outcome.reached
    THEN \* the except clause logs; response is unbound at the status check
         Raise("UnboundLocalError",
               "local variable 'response' referenced before assignment",
               <<Log("ERROR", "Oshibka otpravki zaprosa: <RequestException>")>>)
    ELSE IF outcome.status_code # HTTPStatus_OK
    THEN Raise("ResponseError",
               "Poluchen otvet so statusom " \o ToString(outcome.status_code), <<>>)
    ELSE IF outcome.body = InvalidJson
    THEN Raise("JSONDecodeError", "Expecting value", <<>>)
    ELSE Return(outcome.body, <<>>)

-----------------------------------------------------------------------------
(* check_response *)

\* check_response testing the type of homeworks before current_date
check_response_list_first(resp) ==
    IF resp.type # "dict"
    THEN Raise("TypeError",
               "Otvet ot Yandex API ne slovar, a <class '" \o resp.type \o "'>", <<>>)
    ELSE IF Get(resp, "homeworks") = None
    THEN Raise("ResponseError", "V otvete ot Yandex API net zapisey o DZ", <<>>)
    ELSE IF Get(resp, "homeworks").type # "list"
    THEN Raise("TypeError",
               "V otvete ot Yandex API zapisi o DZ ne privedeny k spisku", <<>>)
    ELSE IF Get(resp, "current_date") = None
    THEN Raise("ResponseError",
               "V otvete ot Yandex API net zapisi o tekushchey date", <<>>)
    ELSE IF Len(Get(resp, "homeworks").items) < 1
    THEN Raise("ResponseError",
               "V otvete ot Yandex API spisok s zapisyami o DZ pust", <<>>)
    ELSE Return(None, <<>>)

\* check_response without the test for an empty list
check_response_no_empty_check(resp) ==
    IF resp.type # "dict"
    THEN Raise("TypeError",
               "Otvet ot Yandex API ne slovar, a <class '" \o resp.type \o "'>", <<>>)
    ELSE IF Get(resp, "homeworks") = None
    THEN Raise("ResponseError", "V otvete ot Yandex API net zapisey o DZ", <<>>)
    ELSE IF Get(resp, "current_date") = None
    THEN Raise("ResponseError",
               "V otvete ot Yandex API net zapisi o tekushchey date", <<>>)
    ELSE IF Get(resp, "homeworks").type # "list"
    THEN Raise("TypeError",
               "V otvete ot Yandex API zapisi o DZ ne privedeny k spisku", <<>>)
    ELSE Return(None, <<>>)

check_response(resp) ==
    IF resp.type # "dict"
    THEN Raise("TypeError",
               "Otvet ot Yandex API ne slovar, a <class '" \o resp.type \o "'>", <<>>)
    ELSE IF Get(resp, "homeworks") = None
    THEN Raise("ResponseError", "V otvete ot Yandex API net zapisey o DZ", <<>>)
    ELSE IF Get(resp, "current_date") = None
    THEN Raise("ResponseError",
               "V otvete ot Yandex API net zapisi o tekushchey date", <<>>)
    ELSE IF Get(resp, "homeworks").type # "list"
    THEN Raise("TypeError",
               "V otvete ot Yandex API zapisi o DZ ne privedeny k spisku", <<>>)
    ELSE IF Len(Get(resp, "homeworks").items) < 1
    THEN Raise("ResponseError",
               "V otvete ot Yandex API spisok s zapisyami o DZ pust", <<>>)
    ELSE Return(None, <<>>)

-----------------------------------------------------------------------------
(* parse_status *)

Template(name, verdict) ==
    "Izmenilsya status proverki raboty \"" \o name \o "\". " \o verdict

parse_status_no_verdict(hw) ==
    IF hw.type # "dict"
    THEN Raise("AttributeError",
               "'" \o hw.type \o "' object has no attribute 'get'", <<>>)
    ELSE IF Get(hw, "homework_name") = None
    THEN Raise("ResponseError", "V otvete API net klyucha homework_name", <<>>)
    ELSE IF VerdictGet(Get(hw, "status")) = None
    THEN Raise("ResponseError", "Neozhidannyy status domashney raboty", <<>>)
    ELSE Return(PyStr(Template(Get(hw, "homework_name").val, "")), <<>>)

\* parse_status formatting the missing verdict instead of raising
parse_status_accepts_unknown(hw) ==
    IF hw.type # "dict"
    THEN Raise("AttributeError",
               "'" \o hw.type \o "' object has no attribute 'get'", <<>>)
    ELSE IF Get(hw, "homework_name") = None
    THEN Raise("ResponseError", "V otvete API net klyucha homework_name", <<>>)
    ELSE IF VerdictGet(Get(hw, "status")) = None
    THEN Return(PyStr(Template(Get(hw, "homework_name").val, "None")), <<>>)
    ELSE Return(PyStr(Template(Get(hw, "homework_name").val,
                             VerdictGet(Get(hw, "status")).val)), <<>>)

parse_status(hw) ==
    IF hw.type # "dict"
    THEN Raise("AttributeError",
               "'" \o hw.type \o "' object has no attribute 'get'", <<>>)
    ELSE IF Get(hw, "homework_name") = None
    THEN Raise("ResponseError", "V otvete API net klyucha homework_name", <<>>)
    ELSE IF VerdictGet(Get(hw, "status")) = None
    THEN Raise("ResponseError", "Neozhidannyy status domashney raboty", <<>>)
    ELSE Return(PyStr(Template(Get(hw, "homework_name").val,
                             VerdictGet(Get(hw, "status")).val)), <<>>)

-----------------------------------------------------------------------------
(* Inputs the environment can produce *)

TokenInputs == {None, PyStr(""), PyStr("token")}

\* values int(time.time()) can give at startup
Times == {1700000000, 1700000600}

HomeworkRecord(name, st) ==
    Dict([k \in {"homework_name", "status"} |->
            IF k = "homework_name" THEN name ELSE st])

HomeworkInputs ==
    {HomeworkRecord(PyStr(n), PyStr(s)) :
        n \in {"X", "Y"}, s \in {"approved", "reviewing"}}
    \cup {HomeworkRecord(Absent, PyStr("approved")),
          HomeworkRecord(PyStr("X"), PyStr("unknown_code")),
          HomeworkRecord(PyStr("X"), Absent),
          PyStr("not a record")}

\* records that follow the first one in a list
OlderHomeworkInputs ==
    {HomeworkRecord(PyStr("Y"), PyStr("reviewing")),
     HomeworkRecord(PyStr("X"), PyStr("unknown_code"))}

HomeworkLists ==
    {<<>>} \cup
    UNION {{<<h>> \o t : h \in HomeworkInputs, t \in [1..n -> OlderHomeworkInputs]} :
              n \in 0..(MaxHomeworks - 1)}

ResponseBody(hws, date) ==
    Dict([k \in {"homeworks", "current_date"} |->
            IF k = "homeworks" THEN hws ELSE date])

\* values of homeworks that are no list of records
OddHomeworks == {Absent, None, PyStr("not a list"), PyList(<<>>)}

\* every homeworks value with a current_date, and the odd ones and one good
\* list with current_date missing or null as well
BodyInputs ==
    {ResponseBody(h, PyInt(0)) :
        h \in OddHomeworks \cup {PyList(l) : l \in HomeworkLists}}
    \cup {ResponseBody(h, d) :
            h \in OddHomeworks
                 \cup {PyList(<<HomeworkRecord(PyStr("X"), PyStr("approved"))>>)},
            d \in {Absent, None}}
    \cup {PyList(<<>>), InvalidJson}

ApiOutcomes ==
    {TransportFailure, HttpResponse(500, Unset),
     HttpResponse(404, ResponseBody(
         PyList(<<HomeworkRecord(PyStr("X"), PyStr("approved"))>>), PyInt(0)))}
    \cup {HttpResponse(HTTPStatus_OK, b) : b \in BodyInputs}

-----------------------------------------------------------------------------
(* Observation of a cycle *)

NoCycle == [active |-> FALSE, from_date |-> 0, last_at_start |-> "",
            http |-> 0, raised_by |-> "", no_homeworks |-> FALSE, homework |-> Unset, evaluated |-> "",
            caught |-> NoError, sends |-> <<>>, log |-> <<>>, sleeps |-> 0]

NewCycle(from_date, last) == [NoCycle EXCEPT !.active = TRUE,
                                             !.from_date = from_date,
                                             !.last_at_start = last]

Send(kind, text, r, repeat) ==
    [kind |-> kind, text |-> text, ok |-> ~r.raised, repeat |-> repeat,
     via |-> bot]

ErrorOf(r) == [kind |-> r.kind, text |-> r.text]

\* the body is a JSON object without the homeworks field
LacksHomeworks(o) ==
    o.reached /\ o.body.type = "dict" /\ "homeworks" \notin DOMAIN o.body.fields

\* what is kept of a cycle once the next one begins
Abridged(c) ==
    [c EXCEPT !.log = <<>>,
              !.caught = [kind |-> c.caught.kind, text |-> ""],
              !.sends = [i \in DOMAIN c.sends |->
                            IF c.sends[i].kind = "diagnostic"
                            THEN [c.sends[i] EXCEPT !.text = ""]
                            ELSE c.sends[i]]]

-----------------------------------------------------------------------------
(* main *)

Init ==
    /\ tokens \in [1..3 -> TokenInputs]
    /\ pc = "start"
    /\ exit_code = -1
    /\ bot = "none"
    /\ timestamp = 0
    /\ started_at = 0
    /\ last_status = ""
    /\ response = Unset
    /\ homework = Unset
    /\ status = ""
    /\ error = NoError
    /\ cur = NoCycle
    /\ prev = NoCycle
    /\ delivered = ""

\* lines 157-166: check_tokens, then sys.exit(1) or the loop's locals
Startup ==
    /\ pc = "start"
    /\ LET r == check_tokens(tokens) IN
       IF r.raised
       THEN /\ pc' = "exited"
            /\ exit_code' = 1
            /\ cur' = [cur EXCEPT !.log =
                          <<Log("CRITICAL", "Otsutstvuet obyazatelnyy token")>>]
            /\ UNCHANGED <<bot, timestamp, started_at, last_status>>
       ELSE /\ pc' = "get_api_answer"
            /\ bot' = "TeleBot"
            /\ timestamp' \in Times
            /\ started_at' = timestamp'
            /\ last_status' = ""
            /\ UNCHANGED <<exit_code, cur>>
    /\ UNCHANGED <<tokens, response, homework, status, error, prev, delivered>>

\* line 170: response = get_api_answer(timestamp)
GetApiAnswer ==
    /\ pc = "get_api_answer"
    /\ \E o \in ApiOutcomes :
        LET r == get_api_answer(o) IN
        /\ prev' = Abridged(cur)
        /\ cur' = [NewCycle(timestamp, last_status) EXCEPT
                      !.log = r.logs,
                      !.http = o.status_code,
                      !.raised_by = IF r.raised THEN "get_api_answer" ELSE "",
                      !.no_homeworks = LacksHomeworks(o)]
        /\ IF r.raised
           THEN /\ error' = ErrorOf(r)
                /\ pc' = "except"
                /\ UNCHANGED response
           ELSE /\ response' = r.value
                /\ pc' = "check_response"
                /\ UNCHANGED error
    /\ UNCHANGED <<tokens, started_at, exit_code, bot, timestamp, last_status, homework,
                   status, delivered>>

\* line 171: check_response(response)
CheckResponse ==
    /\ pc = "check_response"
    /\ LET r == check_response(response) IN
       IF r.raised
       THEN /\ error' = ErrorOf(r)
            /\ cur' = [cur EXCEPT !.raised_by = "check_response"]
            /\ pc' = "except"
       ELSE /\ pc' = "take_homework"
            /\ UNCHANGED <<error, cur>>
    /\ UNCHANGED <<tokens, started_at, exit_code, bot, timestamp, last_status, response,
                   homework, status, prev, delivered>>

\* TakeHomework reading the last element of the list instead of the first
TakeHomework_last ==
    /\ pc = "take_homework"
    /\ LET hws == Get(response, "homeworks") IN
       IF hws.type = "list" /\ Len(hws.items) >= 1
       THEN /\ homework' = hws.items[Len(hws.items)]
            /\ cur' = [cur EXCEPT !.homework = hws.items[Len(hws.items)]]
            /\ pc' = "parse_status"
            /\ UNCHANGED error
       ELSE /\ error' = [kind |-> IF hws.type = "list" THEN "IndexError"
                                  ELSE "TypeError",
                         text |-> "homeworks[0]"]
            /\ cur' = [cur EXCEPT !.raised_by = "take_homework"]
            /\ pc' = "except"
            /\ UNCHANGED homework
    /\ UNCHANGED <<tokens, started_at, exit_code, bot, timestamp, last_status, response,
                   status, prev, delivered>>

\* line 172: homework = response.get('homeworks')[0]
TakeHomework ==
    /\ pc = "take_homework"
    /\ LET hws == Get(response, "homeworks") IN
       IF hws.type = "list" /\ Len(hws.items) >= 1
       THEN /\ homework' = hws.items[1]
            /\ cur' = [cur EXCEPT !.homework = hws.items[1]]
            /\ pc' = "parse_status"
            /\ UNCHANGED error
       ELSE /\ error' = [kind |-> IF hws.type = "list" THEN "IndexError"
                                  ELSE "TypeError",
                         text |-> "homeworks[0]"]
            /\ cur' = [cur EXCEPT !.raised_by = "take_homework"]
            /\ pc' = "except"
            /\ UNCHANGED homework
    /\ UNCHANGED <<tokens, started_at, exit_code, bot, timestamp, last_status, response,
                   status, prev, delivered>>

\* line 173: status = parse_status(homework)
ParseStatus ==
    /\ pc = "parse_status"
    /\ LET r == parse_status(homework) IN
       IF r.raised
       THEN /\ error' = ErrorOf(r)
            /\ cur' = [cur EXCEPT !.raised_by = "parse_status"]
            /\ pc' = "except"
            /\ UNCHANGED <<status, delivered>>
       ELSE /\ status' = r.value.val
            /\ cur' = [cur EXCEPT !.evaluated = r.value.val]
            /\ delivered' = IF delivered = r.value.val THEN delivered ELSE ""
            /\ pc' = "compare"
            /\ UNCHANGED error
    /\ UNCHANGED <<tokens, started_at, exit_code, bot, timestamp, last_status, response,
                   homework, prev>>

\* lines 175-178: if status != last_status: ... else: logger.debug(...)
Compare ==
    /\ pc = "compare"
    /\ IF status # last_status
       THEN /\ pc' = "send_message"
            /\ UNCHANGED cur
       ELSE /\ pc' = "finally"
            /\ cur' = [cur EXCEPT !.log = Append(@,
                          Log("DEBUG", "Status ne izmenilsya, soobshchenie ne otpravleno"))]
    /\ UNCHANGED <<tokens, started_at, exit_code, bot, timestamp, last_status, response,
                   homework, status, error, prev, delivered>>

\* SendStatus recording the summary in last_status as soon as the send is tried
SendStatus_record_on_attempt ==
    /\ pc = "send_message"
    /\ \E o \in NotifierOutcomes :
        LET r == send_message(o, status) IN
        /\ cur' = [cur EXCEPT
                      !.sends = Append(@, Send("status", status, r, delivered = status)),
                      !.raised_by = IF r.raised THEN "send_message" ELSE @,
                      !.log = @ \o r.logs]
        /\ last_status' = status
        /\ IF r.raised
           THEN /\ error' = ErrorOf(r)
                /\ pc' = "except"
                /\ UNCHANGED delivered
           ELSE /\ pc' = "finally"
                /\ delivered' = status
                /\ UNCHANGED error
    /\ UNCHANGED <<tokens, started_at, exit_code, bot, timestamp, response,
                   homework, status, prev>>

\* SendStatus raising after the message was delivered
SendStatus_raises_after_delivery ==
    /\ pc = "send_message"
    /\ \E o \in NotifierOutcomes :
        LET r == send_message(o, status) IN
        /\ cur' = [cur EXCEPT
                      !.sends = Append(@, Send("status", status, r, delivered = status)),
                      !.raised_by = "send_message",
                      !.log = @ \o r.logs]
        /\ error' = IF r.raised THEN ErrorOf(r)
                    ELSE [kind |-> "MessageSendingError",
                          text |-> "Proizoshla nepredvidennaya oshibka: <Exception>"]
        /\ pc' = "except"
        /\ delivered' = IF r.raised THEN delivered ELSE status
    /\ UNCHANGED <<tokens, started_at, exit_code, bot, timestamp, last_status, response,
                   homework, status, prev>>

\* line 176: send_message(bot, status)
SendStatus ==
    /\ pc = "send_message"
    /\ \E o \in NotifierOutcomes :
        LET r == send_message(o, status) IN
        /\ cur' = [cur EXCEPT
                      !.sends = Append(@, Send("status", status, r, delivered = status)),
                      !.raised_by = IF r.raised THEN "send_message" ELSE @,
                      !.log = @ \o r.logs]
        /\ IF r.raised
           THEN /\ error' = ErrorOf(r)
                /\ pc' = "except"
                /\ UNCHANGED delivered
           ELSE /\ pc' = "finally"
                /\ delivered' = status
                /\ UNCHANGED error
    /\ UNCHANGED <<tokens, started_at, exit_code, bot, timestamp, last_status, response,
                   homework, status, prev>>

\* DiagnosticMessage without the text of the error
DiagnosticMessage_no_text(err) == "Sboy v rabote programmy"

\* line 181: message = f'... {error}'
DiagnosticMessage(err) == "Sboy v rabote programmy: " \o err.text

\* Except raising the caught error again after the diagnostic was sent
Except_reraise ==
    /\ pc = "except"
    /\ \E o \in NotifierOutcomes :
        LET message == DiagnosticMessage(error)
            r == send_message(o, message) IN
        /\ cur' = [cur EXCEPT
                      !.caught = error,
                      !.sends = Append(@, Send("diagnostic", message, r, FALSE)),
                      !.log = (@ \o <<Log("ERROR", message)>>) \o r.logs]
        /\ error' = IF r.raised THEN ErrorOf(r) ELSE error
        /\ pc' = "finally"
    \* the handler and the finally clause read none of response, homework and
    \* status, and the next iteration assigns each before reading it: their
    \* values are dead from here
    /\ response' = Unset
    /\ homework' = Unset
    /\ status' = ""
    /\ UNCHANGED <<tokens, started_at, exit_code, bot, timestamp, last_status,
                   prev, delivered>>

\* lines 180-183: except Exception as error: log it and send the diagnostic;
\* an exception of send_message leaves the handler and propagates
Except ==
    /\ pc = "except"
    /\ \E o \in NotifierOutcomes :
        LET message == DiagnosticMessage(error)
            r == send_message(o, message) IN
        /\ cur' = [cur EXCEPT
                      !.caught = error,
                      !.sends = Append(@, Send("diagnostic", message, r, FALSE)),
                      !.log = (@ \o <<Log("ERROR", message)>>) \o r.logs]
        /\ error' = IF r.raised THEN ErrorOf(r) ELSE NoError
        /\ pc' = "finally"
    \* the handler and the finally clause read none of response, homework and
    \* status, and the next iteration assigns each before reading it: their
    \* values are dead from here
    /\ response' = Unset
    /\ homework' = Unset
    /\ status' = ""
    /\ UNCHANGED <<tokens, started_at, exit_code, bot, timestamp, last_status,
                   prev, delivered>>

\* Finally moving the cursor to another time before the next poll
Finally_advances_cursor ==
    /\ pc = "finally"
    /\ cur' = [cur EXCEPT !.sleeps = @ + 1]
    /\ IF error # NoError
       THEN /\ pc' = "crashed"
            /\ exit_code' = 1
       ELSE /\ pc' = "get_api_answer"
            /\ UNCHANGED exit_code
    /\ timestamp' \in Times
    /\ response' = Unset
    /\ homework' = Unset
    /\ status' = ""
    /\ UNCHANGED <<tokens, started_at, bot, last_status, error, prev, delivered>>

\* Finally with the sleep placed after the try statement instead of in its
\* finally clause: a propagating exception skips it
Finally_sleep_after_try ==
    /\ pc = "finally"
    /\ IF error # NoError
       THEN /\ pc' = "crashed"
            /\ exit_code' = 1
            /\ UNCHANGED cur
       ELSE /\ pc' = "get_api_answer"
            /\ cur' = [cur EXCEPT !.sleeps = @ + 1]
            /\ UNCHANGED exit_code
    /\ response' = Unset
    /\ homework' = Unset
    /\ status' = ""
    /\ UNCHANGED <<tokens, started_at, bot, timestamp, last_status, error, prev, delivered>>

\* line 186: finally: time.sleep(RETRY_PERIOD); then the next iteration, or
\* the propagating exception leaves main() and ends the process
Finally ==
    /\ pc = "finally"
    /\ cur' = [cur EXCEPT !.sleeps = @ + 1]
    /\ IF error # NoError
       THEN /\ pc' = "crashed"
            /\ exit_code' = 1
       ELSE /\ pc' = "get_api_answer"
            /\ UNCHANGED exit_code
    \* response, homework and status are assigned before they are read in the
    \* next iteration: their old values are dead here
    /\ response' = Unset
    /\ homework' = Unset
    /\ status' = ""
    /\ UNCHANGED <<tokens, started_at, bot, timestamp, last_status, error, prev, delivered>>

Next ==
    \/ Startup
    \/ GetApiAnswer
    \/ CheckResponse
    \/ TakeHomework
    \/ ParseStatus
    \/ Compare
    \/ SendStatus
    \/ Except
    \/ Finally

Spec == Init /\ [][Next]_vars

\* the process is the only thread and every call it makes returns: main()
\* takes its next step whenever it has one
LiveSpec == Init /\ [][Next]_vars /\ WF_vars(Next)

-----------------------------------------------------------------------------
(* Vocabulary of the properties *)

StatusSends(c) ==
    Cardinality({i \in DOMAIN c.sends : c.sends[i].kind = "status"})

AllSendsOk(c) == \A i \in DOMAIN c.sends : c.sends[i].ok

\* the cycle tried to send summary s as a status notification and that failed
StatusSendFailed(c, s) ==
    \E i \in DOMAIN c.sends :
        c.sends[i].kind = "status" /\ c.sends[i].text = s /\ ~c.sends[i].ok

StatusSendTried(c, s) ==
    \E i \in DOMAIN c.sends : c.sends[i].kind = "status" /\ c.sends[i].text = s

StatusDelivered(c) ==
    \E i \in DOMAIN c.sends : c.sends[i].kind = "status" /\ c.sends[i].ok

DiagnosticFailed(c) ==
    \E i \in DOMAIN c.sends : c.sends[i].kind = "diagnostic" /\ ~c.sends[i].ok

DiagnosticDelivered(c) ==
    \E i \in DOMAIN c.sends : c.sends[i].kind = "diagnostic" /\ c.sends[i].ok

\* the current cycle has run to its end, sleep included
CycleOver == cur.active /\ pc \in {"get_api_answer", "crashed"}

BodyPositions ==
    {"check_response", "take_homework", "parse_status", "compare",
     "send_message", "except", "finally"}

SomeTokenMissing == \E i \in DOMAIN tokens : ~Truthy(tokens[i])

\* the record evaluated by the cycle carries a status outside the verdict table
UnknownStatus(c) ==
    /\ c.homework.type = "dict"
    /\ "status" \in DOMAIN c.homework.fields
    /\ \/ c.homework.fields["status"].type # "str"
       \/ c.homework.fields["status"].val \notin DOMAIN HOMEWORK_VERDICTS

-----------------------------------------------------------------------------
(* C1..C10 *)

\* C1 (as claimed): of two consecutive cycles that both evaluate the same
\* summary with no notifier failure, the first (in which the summary is new)
\* sends exactly one status notification and the second sends none.
C1_IdempotentNoOp ==
    (/\ CycleOver /\ prev.active
     /\ prev.evaluated # "" /\ cur.evaluated = prev.evaluated
     /\ prev.last_at_start # prev.evaluated
     /\ AllSendsOk(prev) /\ AllSendsOk(cur))
    => (StatusSends(prev) = 1 /\ StatusSends(cur) = 0)

\* C2 (as claimed): when a cycle whose summary S differed from last_status
\* delivered S, last_status equals S at the start of the next cycle.
C2_LastNotifiedRecorded ==
    (/\ pc = "get_api_answer" /\ cur.active
     /\ cur.evaluated # "" /\ cur.evaluated # cur.last_at_start
     /\ StatusDelivered(cur))
    => last_status = cur.evaluated

\* C3 (as claimed): a failed diagnostic send is swallowed, no exception is
\* left propagating after it, and once the loop has started the process never
\* ends.
C3_DiagnosticFailureSwallowed ==
    /\ DiagnosticFailed(cur) => error = NoError
    /\ bot = "TeleBot" => pc # "crashed"

C5_NoRenotification ==
    \A i \in DOMAIN cur.sends :
        cur.sends[i].kind = "status" => ~cur.sends[i].repeat

\* C6: a cycle evaluating {name n, approved} followed by one evaluating
\* {name n, reviewing}, the notifier succeeding, sends one status notification
\* in each, two in all, and the two texts differ.
C6_ChangeDetection ==
    \A n \in {"X", "Y"} :
        (/\ CycleOver /\ prev.active
         /\ prev.homework = HomeworkRecord(PyStr(n), PyStr("approved"))
         /\ cur.homework = HomeworkRecord(PyStr(n), PyStr("reviewing"))
         /\ AllSendsOk(prev) /\ AllSendsOk(cur))
        => /\ Len(prev.sends) = 1 /\ Len(cur.sends) = 1
           /\ StatusSends(prev) + StatusSends(cur) = 2
           /\ prev.sends[1].text # cur.sends[1].text

C6_Witness ==
    /\ CycleOver /\ prev.active
    /\ prev.homework = HomeworkRecord(PyStr("X"), PyStr("approved"))
    /\ cur.homework = HomeworkRecord(PyStr("X"), PyStr("reviewing"))
    /\ AllSendsOk(prev) /\ AllSendsOk(cur)
    /\ StatusSends(cur) = 1

\* C7: the sleep runs once per cycle, after the cycle body, on every branch,
\* the failed diagnostic send included; every API call but the first comes
\* after exactly one sleep since the call before it.
C7_CycleCadence ==
    /\ cur.sleeps <= 1
    /\ pc \in BodyPositions => cur.sleeps = 0
    /\ CycleOver => cur.sleeps = 1
    /\ prev.active => prev.sleeps = 1

C7_Witness ==
    /\ pc = "crashed" /\ cur.sleeps = 1 /\ DiagnosticFailed(cur)
    /\ prev.active /\ prev.evaluated # "" /\ StatusSendFailed(prev, prev.evaluated)

\* C8: once startup is over, a missing or empty credential means the process
\* has exited with status 1 with no bot built, no API call and no send made;
\* with all three present the loop has been entered.
C8_MissingCredentialFatality ==
    pc # "start" =>
        IF SomeTokenMissing
        THEN /\ pc = "exited" /\ exit_code = 1
             /\ bot = "none" /\ ~cur.active /\ ~prev.active
             /\ cur.sends = <<>>
        ELSE /\ pc \in BodyPositions \cup {"get_api_answer", "crashed"}
             /\ bot = "TeleBot"

C8_Witness ==
    /\ pc = "exited"
    /\ Truthy(tokens[1]) /\ Truthy(tokens[2]) /\ tokens[3] = PyStr("")

\* C9 (as claimed): a cycle whose response lacks the homeworks field ends with
\* its diagnostic logged and delivered, and the loop goes on to the next poll.
C9_MalformedResponseResilience ==
    (CycleOver /\ cur.no_homeworks)
    => /\ pc = "get_api_answer"
       /\ \E i \in DOMAIN cur.log : cur.log[i].level = "ERROR"
       /\ DiagnosticDelivered(cur)

\* C10 (as claimed): a cycle whose newest record has a status outside the
\* verdict table raises ResponseError, is handled as a diagnostic without a
\* crash, sends no status notification and leaves last_status unchanged.
C10_UnknownStatusRejection ==
    (CycleOver /\ UnknownStatus(cur))
    => /\ cur.caught.kind = "ResponseError"
       /\ pc # "crashed"
       /\ StatusSends(cur) = 0
       /\ last_status = cur.last_at_start

-----------------------------------------------------------------------------
(* C11..C20 *)

\* the exception the outer handler of the current cycle caught
Caught == IF pc = "except" THEN error ELSE cur.caught

\* requests.get raised in the cycle
TransportFailed(c) == c.active /\ c.http = 0

HasKey(d, key) == d.type = "dict" /\ key \in DOMAIN d.fields

\* a JSON object whose homeworks field is present and is not a list
NonListHomeworks(resp) ==
    HasKey(resp, "homeworks") /\ resp.fields["homeworks"].type # "list"

\* a JSON object with a non-empty list of homeworks and a non-null current_date
WellFormed(resp) ==
    /\ HasKey(resp, "homeworks")
    /\ resp.fields["homeworks"].type = "list"
    /\ Len(resp.fields["homeworks"].items) >= 1
    /\ HasKey(resp, "current_date")
    /\ resp.fields["current_date"] # None

\* check_response has been applied to the response of the current cycle
Checked == response # Unset /\ pc # "check_response"

\* C11 (as claimed): a cycle in which requests.get raised is caught by the
\* outer handler, logged, its diagnostic send attempted, sends no status
\* notification, and is followed by the next poll after the sleep.
C11_TransportFailureRecoverable ==
    (CycleOver /\ TransportFailed(cur))
    => /\ cur.caught # NoError
       /\ \E i \in DOMAIN cur.log : cur.log[i].level = "ERROR"
       /\ Len(cur.sends) = 1 /\ cur.sends[1].kind = "diagnostic"
       /\ StatusSends(cur) = 0
       /\ cur.sleeps = 1
       /\ pc = "get_api_answer"

\* C12 (as claimed): a JSON object whose homeworks field is present and not a
\* list makes check_response raise TypeError, whatever current_date is.
C12_NonListHomeworksTypeError ==
    (Checked /\ NonListHomeworks(response))
    => (cur.raised_by = "check_response" /\ Caught.kind = "TypeError")

\* C12 (amended): a JSON object whose homeworks field is present and not a
\* list makes check_response raise; TypeError when homeworks is not null and
\* current_date is present and not null, ResponseError when homeworks is null
\* or current_date is absent or null.
C12_NonListHomeworksRejected ==
    (Checked /\ NonListHomeworks(response))
    => /\ cur.raised_by = "check_response"
       /\ Caught.kind =
            IF /\ response.fields["homeworks"] # None
               /\ HasKey(response, "current_date")
               /\ response.fields["current_date"] # None
            THEN "TypeError"
            ELSE "ResponseError"

C12_Witness ==
    /\ pc = "except" /\ cur.raised_by = "check_response"
    /\ NonListHomeworks(response)
    /\ response.fields["homeworks"] # None
    /\ ~HasKey(response, "current_date")
    /\ error.kind = "ResponseError"

\* C13: check_response returns exactly on well-formed responses; otherwise it
\* raises, TypeError for a non-object, ResponseError for an absent homeworks,
\* an empty homeworks list or an absent current_date.
C13_CheckResponseContract ==
    Checked =>
        IF WellFormed(response)
        THEN cur.raised_by # "check_response"
        ELSE /\ cur.raised_by = "check_response"
             /\ Caught.kind \in {"TypeError", "ResponseError"}
             /\ response.type # "dict" => Caught.kind = "TypeError"
             /\ (response.type = "dict" /\ ~HasKey(response, "homeworks"))
                => Caught.kind = "ResponseError"
             /\ (HasKey(response, "homeworks")
                 /\ response.fields["homeworks"] = PyList(<<>>))
                => Caught.kind = "ResponseError"
             /\ (response.type = "dict" /\ ~HasKey(response, "current_date"))
                => Caught.kind = "ResponseError"

C13_Witness ==
    /\ pc = "except" /\ cur.raised_by = "check_response"
    /\ HasKey(response, "homeworks")
    /\ response.fields["homeworks"] = PyList(<<>>)
    /\ HasKey(response, "current_date")
    /\ response.fields["current_date"] # None
    /\ error.kind = "ResponseError"

\* the record has a non-null name
Named(hw) == HasKey(hw, "homework_name") /\ hw.fields["homework_name"] # None

\* the record has a status that is a key of the verdict table
KnownStatus(hw) ==
    /\ HasKey(hw, "status")
    /\ hw.fields["status"].type = "str"
    /\ hw.fields["status"].val \in DOMAIN HOMEWORK_VERDICTS

\* the summary the source's f-string gives for a named record of known status
SummaryOf(hw) ==
    "Izmenilsya status proverki raboty \""
        \o hw.fields["homework_name"].val
        \o "\". "
        \o HOMEWORK_VERDICTS[hw.fields["status"].val]

\* parse_status has been applied to the record of the cycle
Parsed(c) == c.active /\ c.homework.type = "dict"
             /\ (c = cur => pc # "parse_status")

\* C14: parse_status raises ResponseError for a record without a name and for
\* one whose status is absent or unknown; otherwise it returns the template
\* filled with that name and the verdict of that status, so the summaries of
\* two records are equal exactly when names and verdict texts are equal.
C14_ParseStatusContract ==
    /\ Parsed(cur) =>
         IF Named(cur.homework) /\ KnownStatus(cur.homework)
         THEN /\ cur.raised_by # "parse_status"
              /\ cur.evaluated = SummaryOf(cur.homework)
         ELSE /\ cur.raised_by = "parse_status"
              /\ Caught.kind = "ResponseError"
              /\ cur.evaluated = ""
    /\ (Parsed(cur) /\ Parsed(prev) /\ cur.evaluated # "" /\ prev.evaluated # "")
       => ((cur.evaluated = prev.evaluated)
           <=> /\ cur.homework.fields["homework_name"]
                    = prev.homework.fields["homework_name"]
               /\ HOMEWORK_VERDICTS[cur.homework.fields["status"].val]
                    = HOMEWORK_VERDICTS[prev.homework.fields["status"].val])

C14_Witness ==
    /\ Parsed(cur) /\ Parsed(prev)
    /\ cur.evaluated # "" /\ prev.evaluated # ""
    /\ cur.evaluated # prev.evaluated
    /\ cur.homework.fields["homework_name"] = prev.homework.fields["homework_name"]

\* C15: once the response has passed check_response, the index-0 access does
\* not raise, the record evaluated is the first of the list, and whether a
\* status notification is sent and its text depend on that record alone.
C15_FirstRecordEvaluated ==
    (response # Unset /\ WellFormed(response)
     /\ pc \notin {"check_response", "take_homework"})
    => LET first == response.fields["homeworks"].items[1] IN
       /\ cur.raised_by # "take_homework"
       /\ homework = first /\ cur.homework = first
       /\ \A i \in DOMAIN cur.sends :
             cur.sends[i].kind = "status"
             => /\ first.type = "dict" /\ Named(first) /\ KnownStatus(first)
                /\ cur.sends[i].text = SummaryOf(first)
       /\ pc = "finally"
          => (StatusSends(cur) = 1
              <=> (first.type = "dict" /\ Named(first) /\ KnownStatus(first)))

C15_Witness ==
    /\ pc = "finally" /\ response # Unset /\ WellFormed(response)
    /\ Len(response.fields["homeworks"].items) = 2
    /\ response.fields["homeworks"].items[2] # response.fields["homeworks"].items[1]
    /\ KnownStatus(response.fields["homeworks"].items[2])
    /\ StatusSends(cur) = 1

DiagnosticSends(c) ==
    Cardinality({i \in DOMAIN c.sends : c.sends[i].kind = "diagnostic"})

\* text is part preceded by one of the fixed prefixes of the source
EndsWithAfterPrefix(text, part) ==
    \E p \in {"", "Sboy v rabote programmy: "} : text = p \o part

\* the cycle body of the current cycle has run to its end
BodyOver == cur.active /\ pc \in {"finally", "get_api_answer", "crashed"}

\* C16: a cycle in which a step raised ends with exactly one diagnostic send
\* attempt, made through the bot of main(), whose text contains the text of
\* the error caught; a cycle in which nothing raised makes none.
C16_OneDiagnosticPerFailure ==
    /\ DiagnosticSends(cur) <= 1
    /\ BodyOver =>
         IF cur.raised_by # ""
         THEN /\ cur.caught # NoError /\ cur.caught.text # ""
              /\ DiagnosticSends(cur) = 1
              /\ \A i \in DOMAIN cur.sends :
                    cur.sends[i].kind = "diagnostic"
                    => /\ EndsWithAfterPrefix(cur.sends[i].text, cur.caught.text)
                       /\ cur.sends[i].via = "TeleBot"
                       /\ i = Len(cur.sends)
         ELSE /\ cur.caught = NoError
              /\ DiagnosticSends(cur) = 0

C16_Witness ==
    /\ BodyOver /\ cur.raised_by = "send_message"
    /\ DiagnosticSends(cur) = 1
    /\ StatusSendFailed(cur, cur.evaluated)

\* the API answered the cycle's request with a status code other than 200
NonSuccess(c) == c.active /\ c.http \notin {0, HTTPStatus_OK}

\* C17: when the API answers with a status code other than 200,
\* get_api_answer raises ResponseError naming the code, the body is neither
\* validated nor parsed in that cycle and no status notification is sent.
C17_NonSuccessStatusRejected ==
    NonSuccess(cur)
    => /\ cur.raised_by = "get_api_answer"
       /\ Caught.kind = "ResponseError"
       /\ Caught.text = "Poluchen otvet so statusom " \o ToString(cur.http)
       /\ pc \in {"except", "finally", "get_api_answer", "crashed"}
       /\ response = Unset /\ homework = Unset /\ cur.homework = Unset
       /\ cur.evaluated = ""
       /\ StatusSends(cur) = 0

C17_Witness == CycleOver /\ cur.http = 404 /\ DiagnosticDelivered(cur)

\* C18: every API call is made with the timestamp computed at startup; no
\* outcome of a cycle changes the local timestamp.
C18_CursorNeverAdvances ==
    /\ bot = "TeleBot" => (timestamp = started_at /\ started_at \in Times)
    /\ cur.active => cur.from_date = started_at
    /\ prev.active => prev.from_date = started_at

C18_Witness ==
    /\ prev.active /\ cur.active /\ CycleOver
    /\ StatusDelivered(prev) /\ cur.raised_by = "check_response"
    /\ cur.from_date = started_at /\ started_at = 1700000600

\* get_api_answer has just been called for the current cycle
JustPolled ==
    /\ cur.active
    /\ \/ pc = "check_response"
       \/ pc = "except" /\ cur.raised_by = "get_api_answer"

\* C19: when no send of the notifier ever fails, the loop, once entered, goes
\* on for ever: at every point another API call lies ahead.
C19_LoopNeverTerminates ==
    ([]AllSendsOk(cur)) => [](bot = "TeleBot" => <>JustPolled)

C19_Witness ==
    /\ JustPolled /\ prev.active /\ AllSendsOk(prev)
    /\ TransportFailed(prev) /\ prev.raised_by = "get_api_answer"
    /\ prev.sleeps = 1

\* C20: a cycle makes at most two send attempts, at most one of each kind;
\* two only when the status send came first and failed, and then the second
\* is the diagnostic about that MessageSendingError, sent through the same bot.
C20_AtMostTwoSends ==
    /\ Len(cur.sends) <= 2
    /\ StatusSends(cur) <= 1
    /\ DiagnosticSends(cur) <= 1
    /\ Len(cur.sends) = 2
       => /\ cur.sends[1].kind = "status" /\ ~cur.sends[1].ok
          /\ cur.sends[2].kind = "diagnostic"
          /\ cur.raised_by = "send_message"
          /\ cur.caught.kind = "MessageSendingError"
          /\ EndsWithAfterPrefix(cur.sends[2].text, cur.caught.text)
          /\ cur.sends[2].via = cur.sends[1].via
    /\ (StatusSends(cur) = 1 /\ DiagnosticSends(cur) = 1)
       => StatusSendFailed(cur, cur.evaluated)

C20_Witness ==
    /\ BodyOver /\ Len(cur.sends) = 2
    /\ cur.sends[1].kind = "status" /\ ~cur.sends[1].ok
    /\ cur.sends[2].kind = "diagnostic" /\ ~cur.sends[2].ok

====
